---- MODULE Spec2Model ----
(***************************************************************************)
(* PmLogDaemon: the configuration loader of config.c (ReadConfFile,        *)
(* SetDefaultConf and their helpers), the parsing utilities of util.c, and *)
(* the message path (classifier, ring buffer) that consumes the loaded     *)
(* tables.                                                                 *)
(*                                                                         *)
(* C strings are sequences of one-character strings, so that the parsers   *)
(* work on them character by character as the C code does.                 *)
(***************************************************************************)
EXTENDS Integers, Sequences, FiniteSets, TLC

(***************************************************************************)
(* Bounds of the model.                                                    *)
(***************************************************************************)
\* number of groups of the configuration file that are processed
MaxGroups == 3
\* number of RuleN keys a CONTEXT group of the file carries
MaxRuleKeys == 2

(***************************************************************************)
(* Constants of main.h (the header is not part of the sources at hand;     *)
(* the values are the ones the documentation of the daemon gives).         *)
(***************************************************************************)
\* capacity of g_outputConfs; scaled down (the daemon allows about 8) so
\* that a file of MaxGroups groups can overflow the table
PMLOG_MAX_NUM_OUTPUTS == 2
PMLOG_CONTEXT_MAX_NUM_RULES == 32
PMLOG_OUTPUT_MAX_NAME_LENGTH == 32
PMLOG_MAX_CONTEXT_NAME_LEN == 31
PMLOG_PROGRAM_MAX_NAME_LENGTH == 31
PMLOG_MIN_LOG_SIZE == 4096
PMLOG_MAX_LOG_SIZE == 67108864
PMLOG_DEFAULT_LOG_SIZE == 1048576
PMLOG_MIN_NUM_ROTATIONS == 1
PMLOG_MAX_NUM_ROTATIONS == 9
PMLOG_DEFAULT_LOG_ROTATIONS == 1
CONF_INT_UNINIT_VALUE == -1
PMLOG_OUTPUT_STDLOG == <<"s", "t", "d", "l", "o", "g">>
PMLOG_CONTEXT_GLOBAL == <<"<", "g", "l", "o", "b", "a", "l", ">">>
DEFAULT_LOG_FILE_PATH == <<"/", "v", "a", "r", "/", "l", "o", "g", "/", "m", "e", "s", "s", "a", "g", "e", "s">>

\* PATH_MAX of limits.h, the size of PmLogParseOutput_t.File
PATH_MAX == 4096

\* a NULL char*, and the value of a key the group does not have (no string
\* of characters equals either)
NULL == <<"NULL">>
NoKey == <<"NoKey">>
\* a GError*: NULL, or still holding the address of an error already freed
NoError == "NULL"
Dangling == "Dangling"

(***************************************************************************)
(* util.c                                                                  *)
(***************************************************************************)
Min(a, b) == IF a < b THEN a ELSE b

\* A C int is kept in the range -2^31 .. 2^31 - 1. Wider intermediate values
\* (the long of strtol, the product of ParseSize) are held as 16-bit limbs
\* (base 65536), least significant first, so that no step leaves the range
\* of 32-bit integers.
\* limbs * m + d on four limbs (64 bits); ovf when the result needs more
MulAddLimbs(L, m, d) ==
    LET t1 == L[1] * m + d
        t2 == L[2] * m + (t1 \div 65536)
        t3 == L[3] * m + (t2 \div 65536)
        t4 == L[4] * m + (t3 \div 65536)
    IN  [L |-> <<t1 % 65536, t2 % 65536, t3 % 65536, t4 % 65536>>, ovf |-> (t4 \div 65536) > 0]

\* the int whose 32-bit two's complement pattern is the limbs <<lo, hi>>
ToInt32(lo, hi) == IF hi >= 32768 THEN (hi - 65536) * 65536 + lo ELSE hi * 65536 + lo

\* low 32 bits of -x, x given by its two low limbs
NegLimbs(lo, hi) ==
    IF lo = 0 THEN <<0, (65536 - hi) % 65536>> ELSE <<65536 - lo, (65536 - 1) - hi>>

\* n * m in int arithmetic, m <= 1024: the low 32 bits of the product
MulInt32(n, m) ==
    LET lo == n % 65536
        hi == (n \div 65536) % 65536
        t1 == lo * m
        t2 == hi * m + (t1 \div 65536)
    IN  ToInt32(t1 % 65536, t2 % 65536)

\* mystrcpy: copies src, cut to dstSize - 1 characters
mystrcpy(dstSize, src) == SubSeq(src, 1, Min(Len(src), dstSize - 1))

\* tolower, over the letters the size suffixes use
ToLower(c) ==
    CASE c = "K" -> "k"
      [] c = "B" -> "b"
      [] c = "M" -> "m"
      [] OTHER -> c

LowerStr(s) == [i \in 1..Len(s) |-> ToLower(s[i])]

\* TrimSuffixCaseInsensitive: [trimmed, s]
TrimSuffixCaseInsensitive(s, suffix) ==
    IF Len(s) < Len(suffix)
    THEN [trimmed |-> FALSE, s |-> s]
    ELSE IF LowerStr(SubSeq(s, Len(s) - Len(suffix) + 1, Len(s))) # LowerStr(suffix)
         THEN [trimmed |-> FALSE, s |-> s]
         ELSE [trimmed |-> TRUE, s |-> SubSeq(s, 1, Len(s) - Len(suffix))]

\* value of a digit character, -1 when it is none
DigitVal(c) ==
    CASE c = "0" -> 0 [] c = "1" -> 1 [] c = "2" -> 2 [] c = "3" -> 3
      [] c = "4" -> 4 [] c = "5" -> 5 [] c = "6" -> 6 [] c = "7" -> 7
      [] c = "8" -> 8 [] c = "9" -> 9
      [] c \in {"a", "A"} -> 10 [] c \in {"b", "B"} -> 11
      [] c \in {"c", "C"} -> 12 [] c \in {"d", "D"} -> 13
      [] c \in {"e", "E"} -> 14 [] c \in {"f", "F"} -> 15
      [] OTHER -> -1

IsDigitOf(c, base) == DigitVal(c) >= 0 /\ DigitVal(c) < base

RECURSIVE DigitsValue(_, _, _)
DigitsValue(s, base, acc) ==
    IF s = <<>> THEN acc
    ELSE LET r == MulAddLimbs(acc.L, base, DigitVal(Head(s)))
         IN  DigitsValue(Tail(s), base, [L |-> r.L, ovf |-> acc.ovf \/ r.ovf])

\* strtol(valStr, &endptr, 0) as ParseInt uses it, followed by the (int)
\* cast: ok is FALSE when no digit was converted, when characters remain
\* after the number, or on ERANGE (the value does not fit a 64-bit long).
\* StrToLCast: the range test on the magnitude mag, and the cast
StrToLCast(neg, mag) ==
    IF \/ mag.ovf
       \/ mag.L[4] > 32768
       \/ mag.L[4] = 32768 /\ ~(neg /\ mag.L[1] = 0 /\ mag.L[2] = 0 /\ mag.L[3] = 0)
    THEN [ok |-> FALSE, n |-> 0]
    ELSE IF neg
         THEN [ok |-> TRUE, n |-> ToInt32(NegLimbs(mag.L[1], mag.L[2])[1],
                                          NegLimbs(mag.L[1], mag.L[2])[2])]
         ELSE [ok |-> TRUE, n |-> ToInt32(mag.L[1], mag.L[2])]

\* StrToLDigits: the digits of the number in its base
StrToLDigits(neg, base, digits) ==
    IF digits = <<>> \/ \E i \in 1..Len(digits) : ~IsDigitOf(digits[i], base)
    THEN [ok |-> FALSE, n |-> 0]
    ELSE StrToLCast(neg, DigitsValue(digits, base, [L |-> <<0, 0, 0, 0>>, ovf |-> FALSE]))

\* StrToLBase: base 0 takes the base from the prefix (0x: 16, 0: 8, else 10)
StrToLBase(neg, body) ==
    IF Len(body) >= 3 /\ body[1] = "0" /\ body[2] \in {"x", "X"} /\ IsDigitOf(body[3], 16)
    THEN StrToLDigits(neg, 16, SubSeq(body, 3, Len(body)))
    ELSE StrToLDigits(neg, IF Len(body) >= 1 /\ body[1] = "0" THEN 8 ELSE 10, body)

StrToL(valStr) ==
    IF Len(valStr) >= 1 /\ valStr[1] \in {"-", "+"}
    THEN StrToLBase(valStr[1] = "-", Tail(valStr))
    ELSE StrToLBase(FALSE, valStr)

\* what ParseInt leaves in *nP: the number read, or what it held (old)
ParseIntStore(r, old) == IF r.ok THEN r ELSE [ok |-> FALSE, n |-> old]

\* ParseInt: [ok, n]; n is left as it was (old) on failure
ParseInt(valStr, old) == ParseIntStore(StrToL(valStr), old)

\* the test of ParseSize on one unit: [trimmed, s], short suffix first
TrimUnit(s, short, long) ==
    IF TrimSuffixCaseInsensitive(s, short).trimmed
    THEN TrimSuffixCaseInsensitive(s, short)
    ELSE TrimSuffixCaseInsensitive(s, long)

\* the multiplication ParseSize ends with, on the number ParseInt read
ParseSizeScale(isK, isM, r, old) ==
    IF ~r.ok THEN [ok |-> FALSE, n |-> old]
    ELSE [ok |-> TRUE,
          n |-> IF isM THEN MulInt32(MulInt32(r.n, 1024), 1024)
                ELSE IF isK THEN MulInt32(r.n, 1024) ELSE r.n]

\* ParseSize: [ok, n]; the K test runs first, the M test on what it left
ParseSize(valStr, old) ==
    LET k == TrimUnit(mystrcpy(32, valStr), <<"K">>, <<"K", "B">>)
        m == TrimUnit(k.s, <<"M">>, <<"M", "B">>)
    IN  ParseSizeScale(k.trimmed, m.trimmed, ParseInt(m.s, old), old)

\* PmLogStringToLevel: the severity names and their syslog codes
LevelNames ==
    << <<"e", "m", "e", "r", "g">>, <<"a", "l", "e", "r", "t">>,
       <<"c", "r", "i", "t">>, <<"e", "r", "r">>,
       <<"w", "a", "r", "n", "i", "n", "g">>, <<"n", "o", "t", "i", "c", "e">>,
       <<"i", "n", "f", "o">>, <<"d", "e", "b", "u", "g">> >>

\* ParseLevel: [ok, level]; level is -1 when the name is not a severity
ParseLevel(s) ==
    IF \E i \in 1..Len(LevelNames) : LevelNames[i] = s
    THEN [ok |-> TRUE, level |-> (CHOOSE i \in 1..Len(LevelNames) : LevelNames[i] = s) - 1]
    ELSE [ok |-> FALSE, level |-> -1]

(***************************************************************************)
(* Rule tokens: ParseRuleFacility and ParseRuleLevel are declared in       *)
(* main.h and defined outside the sources at hand; they take the syslog    *)
(* names the documentation lists, and "*" for any (-1).                    *)
(***************************************************************************)
FacilityNames ==
    << <<"k", "e", "r", "n">>, <<"u", "s", "e", "r">>, <<"m", "a", "i", "l">>,
       <<"d", "a", "e", "m", "o", "n">>, <<"a", "u", "t", "h">>,
       <<"s", "y", "s", "l", "o", "g">>, <<"l", "p", "r">>, <<"n", "e", "w", "s">>,
       <<"u", "u", "c", "p">>, <<"c", "r", "o", "n">>,
       <<"a", "u", "t", "h", "p", "r", "i", "v">>, <<"f", "t", "p">> >>

ParseRuleFacility(token) ==
    IF token = <<"*">> THEN [ok |-> TRUE, n |-> -1]
    ELSE IF \E i \in 1..Len(FacilityNames) : FacilityNames[i] = token
         THEN [ok |-> TRUE,
               n |-> (CHOOSE i \in 1..Len(FacilityNames) : FacilityNames[i] = token) - 1]
         ELSE [ok |-> FALSE, n |-> 0]

ParseRuleLevel(token) ==
    IF token = <<"*">> THEN [ok |-> TRUE, n |-> -1]
    ELSE [ok |-> ParseLevel(token).ok, n |-> ParseLevel(token).level]

(***************************************************************************)
(* config.c: state                                                         *)
(***************************************************************************)
VARIABLES
    pc,             \* where the daemon is: "start", "reading" (inside the group
                    \* loop of ReadConfFile), "returned", "configured", "crashed"
    g_numOutputs,
    g_outputConfs,  \* array 0 .. PMLOG_MAX_NUM_OUTPUTS - 1 of PmLogFile_t
    g_numContexts,
    g_contextConfs, \* the GTree*: live is FALSE for NULL, nodes maps context names
                    \* to PmLogContextConf_t
    retVal,         \* ReadConfFile's retVal
    gerror,         \* ReadConfFile's function-level GError*: NULL or Dangling
    parseOutput,    \* ReadConfFile's PmLogParseOutput_t, as the last OUTPUT group left it
    parseContext,   \* ReadConfFile's PmLogParseContext_t, as the last CONTEXT group left it
    groupsRead,     \* the groups of the file processed so far, in order
    firstOutputOther,  \* an OUTPUT group met the empty output table with a name other than stdlog
    firstContextOther, \* a CONTEXT group met the empty context table with a name other than <global>
    sectionFailed,  \* a section of the file processed so far is one that fails
    written,        \* per output index, the ids of the lines written to it, in order
    arrivals,       \* the messages submitted so far, in arrival order (the id of a
                    \* message is its position)
    writers,        \* per output index, the Output Writer's state: the running
                    \* size of the live file and the sizes of the archives P.1, P.2, ...
    clsRules,       \* classify, rule by rule: the rule list,
    clsMsg,         \* the message,
    clsIdx,         \* the number of rules evaluated,
    clsState        \* and the target list and suppressed set so far

confVars == <<pc, g_numOutputs, g_outputConfs, g_numContexts, g_contextConfs, retVal,
              gerror, parseOutput, parseContext, groupsRead, firstOutputOther,
              firstContextOther, sectionFailed>>

msgVars == <<written, arrivals, writers>>

clsVars == <<clsRules, clsMsg, clsIdx, clsState>>

\* a zeroed PmLogFile_t (memset)
ZeroOutput == [outputName |-> NULL, path |-> NULL, maxSize |-> 0, rotations |-> 0]

ZeroOutputs == [i \in 0..(PMLOG_MAX_NUM_OUTPUTS - 1) |-> ZeroOutput]

\* the NULL GTree* and an empty GTree
NullTree == [live |-> FALSE, nodes |-> [k \in {} |-> 0]]
EmptyTree == [live |-> TRUE, nodes |-> [k \in {} |-> 0]]

(***************************************************************************)
(* config.c: OUTPUT sections                                               *)
(***************************************************************************)
\* FindOutputByName: the index of the first of the g_numOutputs entries with
\* that name, -1 when there is none
FindOutputByName(outs, numOutputs, outputName) ==
    IF \E i \in 0..(numOutputs - 1) :
           outs[i].outputName # NULL /\ outs[i].outputName = outputName
    THEN CHOOSE i \in 0..(numOutputs - 1) :
           /\ outs[i].outputName # NULL /\ outs[i].outputName = outputName
           /\ \A j \in 0..(i - 1) :
                  ~(outs[j].outputName # NULL /\ outs[j].outputName = outputName)
    ELSE -1

ConfIntValueOrDefault(n, defaultVal) == IF n = CONF_INT_UNINIT_VALUE THEN defaultVal ELSE n

\* GetTokenToSep: the characters up to the first terminator (cut to the
\* buffer), the terminator ("" for the end of the string) and what follows it
RECURSIVE TokenEnd(_, _, _)
TokenEnd(s, i, terminators) ==
    IF i > Len(s) \/ s[i] \in terminators THEN i
    ELSE TokenEnd(s, i + 1, terminators)

GetTokenToSep(s, tokenBuffSize, terminators) ==
    LET e == TokenEnd(s, 1, terminators)
    IN  [token |-> SubSeq(s, 1, Min(e - 1, tokenBuffSize - 1)),
         sep |-> IF e > Len(s) THEN "" ELSE s[e],
         rest |-> SubSeq(s, e + 1, Len(s))]

\* ParseOutputInit: on failure the struct is left as memset left it
ParseOutputInit(name, numOutputs) ==
    IF numOutputs = 0 /\ name # PMLOG_OUTPUT_STDLOG
    THEN [ok |-> FALSE,
          po |-> [name |-> <<>>, File |-> <<>>, MaxSize |-> 0, Rotations |-> 0]]
    ELSE [ok |-> TRUE,
          po |-> [name |-> mystrcpy(PMLOG_OUTPUT_MAX_NAME_LENGTH + 1, name),
                  File |-> <<>>,
                  MaxSize |-> CONF_INT_UNINIT_VALUE,
                  Rotations |-> CONF_INT_UNINIT_VALUE]]

\* MakeOutputConf: [ok, outs, numOutputs, po]
MakeOutputConf(po, outs, numOutputs) ==
    IF po.File = <<>> \/ po.File[1] # "/"
    THEN [ok |-> FALSE, outs |-> outs, numOutputs |-> numOutputs, po |-> po]
    ELSE
      LET found == FindOutputByName(outs, numOutputs, po.name)
          full == found = -1 /\ numOutputs >= PMLOG_MAX_NUM_OUTPUTS
          i == IF found = -1 THEN numOutputs ELSE found
          outs1 == IF found = -1
                   THEN [outs EXCEPT ![i] = [outputName |-> po.name, path |-> po.File,
                                             maxSize |-> 0, rotations |-> 0]]
                   ELSE outs
          num1 == IF found = -1 THEN numOutputs + 1 ELSE numOutputs
          size == IF po.MaxSize = CONF_INT_UNINIT_VALUE THEN PMLOG_DEFAULT_LOG_SIZE
                  ELSE IF po.MaxSize < PMLOG_MIN_LOG_SIZE THEN PMLOG_MIN_LOG_SIZE
                  ELSE IF po.MaxSize > PMLOG_MAX_LOG_SIZE THEN PMLOG_MAX_LOG_SIZE
                  ELSE po.MaxSize
          rots == IF po.Rotations = CONF_INT_UNINIT_VALUE THEN po.Rotations
                  ELSE IF po.Rotations < PMLOG_MIN_NUM_ROTATIONS THEN PMLOG_MIN_NUM_ROTATIONS
                  ELSE IF po.Rotations > PMLOG_MAX_NUM_ROTATIONS THEN PMLOG_MAX_NUM_ROTATIONS
                  ELSE po.Rotations
          outs2 == IF po.Rotations = CONF_INT_UNINIT_VALUE
                   THEN [outs1 EXCEPT ![i].rotations = PMLOG_DEFAULT_LOG_ROTATIONS]
                   ELSE outs1
      IN  IF full
          THEN [ok |-> FALSE, outs |-> outs, numOutputs |-> numOutputs, po |-> po]
          ELSE [ok |-> TRUE, outs |-> outs2, numOutputs |-> num1,
                po |-> [po EXCEPT !.MaxSize = size, !.Rotations = rots]]

(***************************************************************************)
(* config.c: CONTEXT sections                                              *)
(***************************************************************************)
\* ParseContextInit: on failure the struct is left as memset left it
ParseContextInit(name, numContexts) ==
    IF numContexts = 0 /\ name # PMLOG_CONTEXT_GLOBAL
    THEN [ok |-> FALSE,
          pcx |-> [name |-> <<>>, numRules |-> 0, bufferSize |-> 0, flushLevel |-> 0,
                   rules |-> <<>>]]
    ELSE [ok |-> TRUE,
          pcx |-> [name |-> mystrcpy(PMLOG_MAX_CONTEXT_NAME_LEN + 1, name),
                   numRules |-> 0, bufferSize |-> 0, flushLevel |-> 0, rules |-> <<>>]]

\* ParseContextData reads a rule in four steps. Each takes and returns
\* [ok, rule, sep, rest]: whether the tokens so far were valid, the slot
\* rules[numRules] as filled so far, the separator that ended the last token
\* and the text after it.
\* the facility token
RuleFacility(val) ==
    LET t == GetTokenToSep(val, 32, {".", ","})
    IN  [ok |-> ParseRuleFacility(t.token).ok,
         rule |-> [facility |-> ParseRuleFacility(t.token).n, level |-> -1,
                   levelInvert |-> FALSE, program |-> <<>>, outputIndex |-> -1,
                   omitOutput |-> FALSE],
         sep |-> t.sep, rest |-> t.rest]

\* the level token the "." announces, "!" before it inverting the test
RuleLevelToken(st, inv, t) ==
    [ok |-> st.ok /\ ParseRuleLevel(t.token).ok,
     rule |-> [st.rule EXCEPT !.level = ParseRuleLevel(t.token).n, !.levelInvert = inv],
     sep |-> t.sep, rest |-> t.rest]

RuleLevel(st) ==
    IF st.sep # "." THEN st
    ELSE IF st.rest # <<>> /\ st.rest[1] = "!"
         THEN RuleLevelToken(st, TRUE, GetTokenToSep(Tail(st.rest), 32, {".", ","}))
         ELSE RuleLevelToken(st, FALSE, GetTokenToSep(st.rest, 32, {".", ","}))

\* the program token the second "." announces
RuleProgramToken(st, t) ==
    [st EXCEPT !.rule.program = mystrcpy(PMLOG_PROGRAM_MAX_NAME_LENGTH + 1, t.token),
               !.sep = t.sep, !.rest = t.rest]

RuleProgram(st) ==
    IF st.sep # "." THEN st
    ELSE RuleProgramToken(st, GetTokenToSep(st.rest, 32, {".", ","}))

\* the output token after the ",", "-" before it omitting the output
RuleOutputToken(st, omit, t, outs, numOutputs) ==
    [ok |-> /\ st.ok
            /\ st.sep = ","
            /\ FindOutputByName(outs, numOutputs, t.token) # -1
            /\ t.sep = "",
     rule |-> [st.rule EXCEPT !.outputIndex = FindOutputByName(outs, numOutputs, t.token),
                              !.omitOutput = omit]]

RuleOutput(st, outs, numOutputs) ==
    IF st.rest # <<>> /\ st.rest[1] = "-"
    THEN RuleOutputToken(st, TRUE, GetTokenToSep(Tail(st.rest), 32, {".", ","}),
                         outs, numOutputs)
    ELSE RuleOutputToken(st, FALSE, GetTokenToSep(st.rest, 32, {".", ","}),
                         outs, numOutputs)

\* The rule ParseContextData reads from val: [ok, rule]. The rule is the
\* slot rules[numRules] as the function leaves it when it returns true.
ParseRule(val, outs, numOutputs) ==
    RuleOutput(RuleProgram(RuleLevel(RuleFacility(val))), outs, numOutputs)

\* the slot counted without a look at what was read
CountRule_Unchecked(pcx, r) ==
    [ok |-> TRUE,
     pcx |-> [pcx EXCEPT !.numRules = pcx.numRules + 1,
                         !.rules = Append(pcx.rules, r.rule)]]

\* numRules grows only when the rule was read
CountRule(pcx, r) ==
    IF r.ok
    THEN [ok |-> TRUE,
          pcx |-> [pcx EXCEPT !.numRules = pcx.numRules + 1,
                              !.rules = Append(pcx.rules, r.rule)]]
    ELSE [ok |-> FALSE, pcx |-> pcx]

\* ParseContextData: [ok, pcx]
ParseContextData(pcx, val, outs, numOutputs) ==
    CountRule(pcx, ParseRule(val, outs, numOutputs))

\* the RuleN loop of ReadConfFile over the consecutive rule values of a group,
\* from the j-th on, r being what the loop has so far: it stops at the first
\* value that does not parse
RECURSIVE ReadRules(_, _, _, _, _)
ReadRules(r, vals, j, outs, numOutputs) ==
    IF ~r.ok \/ j > Len(vals) \/ j > PMLOG_CONTEXT_MAX_NUM_RULES
    THEN r
    ELSE ReadRules(ParseContextData(r.pcx, vals[j], outs, numOutputs),
                   vals, j + 1, outs, numOutputs)

\* RBNew is defined outside the sources at hand: the buffer it returns holds
\* the two values it is given and no entry
RBNew(bufferSize, flushLevel) ==
    [live |-> TRUE, bufferSize |-> bufferSize, flushLevel |-> flushLevel, entries |-> <<>>]

\* a NULL ring buffer pointer
NoRB == [live |-> FALSE, bufferSize |-> 0, flushLevel |-> 0, entries |-> <<>>]

\* g_tree_lookup, g_tree_insert and g_tree_nnodes of glib; handed a NULL tree
\* they fail their precondition check: nothing is found, nothing is inserted,
\* the count is 0
g_tree_has(tree, key) == tree.live /\ key \in DOMAIN tree.nodes

g_tree_insert(tree, key, value) ==
    IF ~tree.live THEN tree
    ELSE [tree EXCEPT !.nodes = [k \in (DOMAIN tree.nodes) \cup {key} |->
                                    IF k = key THEN value ELSE tree.nodes[k]]]

g_tree_nnodes(tree) == IF ~tree.live THEN 0 ELSE Cardinality(DOMAIN tree.nodes)

\* a PmLogContextConf_t as g_new0 returns it, with its name set
NewContextConf(name) == [contextName |-> name, numRules |-> 0, rules |-> <<>>, rb |-> NoRB]

\* CreateContext: the tree with the new context inserted
CreateContext(tree, name) == g_tree_insert(tree, name, NewContextConf(name))

\* the PmLogContextConf_t MakeContextConf fills: the parsed rules over the
\* first numRules slots, the other slots as they were
FillContextConf(conf, pcx) ==
    [conf EXCEPT !.numRules = pcx.numRules,
                 !.rules = pcx.rules \o SubSeq(conf.rules, pcx.numRules + 1, Len(conf.rules)),
                 !.rb = RBNew(pcx.bufferSize, pcx.flushLevel)]

\* MakeContextConf: the tree afterwards (the function always returns true)
MakeContextConf(pcx, tree) ==
    LET conf == IF g_tree_has(tree, pcx.name) THEN tree.nodes[pcx.name]
                ELSE NewContextConf(pcx.name)
    IN  g_tree_insert(tree, pcx.name, FillContextConf(conf, pcx))

\* g_key_file_get_integer of glib: a decimal integer, or an error
KeyFileInteger(v) ==
    LET neg == Len(v) >= 1 /\ v[1] = "-"
        digits == IF neg THEN Tail(v) ELSE v
        okDigits == digits # <<>> /\ Len(digits) <= 9
                    /\ \A i \in 1..Len(digits) : IsDigitOf(digits[i], 10)
        mag == IF okDigits
               THEN DigitsValue(digits, 10, [L |-> <<0, 0, 0, 0>>, ovf |-> FALSE]).L
               ELSE <<0, 0, 0, 0>>
    IN  IF v = NoKey \/ ~okDigits THEN [ok |-> FALSE, n |-> 0]
        ELSE [ok |-> TRUE,
              n |-> IF neg THEN 0 - ToInt32(mag[1], mag[2]) ELSE ToInt32(mag[1], mag[2])]

(***************************************************************************)
(* The configuration files the model reads: the groups, and the keys of    *)
(* each group, are drawn from these sets.                                  *)
(***************************************************************************)
N_klog == <<"k", "l", "o", "g">>
N_ctx == <<"c", "t", "x">>
F_abs == <<"/", "t", ".", "l", "o", "g">>
F_rel == <<"t", ".", "l", "o", "g">>
V_any_std == <<"*", ".", "*", ",", "s", "t", "d", "l", "o", "g">>
V_kern_neg == <<"k", "e", "r", "n", ".", "*", ",", "-", "s", "t", "d", "l", "o", "g">>
V_user_notinfo_klog == <<"u", "s", "e", "r", ".", "!", "i", "n", "f", "o", ",", "k", "l", "o", "g">>
V_no_comma == <<"*", ".", "*">>
V_unknown_out == <<"*", ".", "*", ",", "n", "o", "l", "o", "g">>
Z_1 == <<"1">>
Z_16K == <<"1", "6", "K">>
Z_100M == <<"1", "0", "0", "M">>
Z_3000M == <<"3", "0", "0", "0", "M">>
Z_bad == <<"b", "i", "g">>
L_warning == <<"w", "a", "r", "n", "i", "n", "g">>
L_loud == <<"l", "o", "u", "d">>

\* group names after the OUTPUT= prefix (the last one is the empty name)
OutputNames == {PMLOG_OUTPUT_STDLOG, N_klog, <<>>}
\* the File key: absent, a relative path, an absolute path
FileValues == {NoKey, F_rel, F_abs}
\* the MaxSize and Rotations keys: absent, below, inside and above the range,
\* a size whose product leaves the range of int, and values that are no size
\* and no integer
SizeRotValues ==
    { <<NoKey, NoKey>>, <<Z_1, <<"0">> >>, <<Z_16K, <<"3">> >>, <<Z_100M, <<"1", "0">> >>,
      <<Z_3000M, <<"2">> >>, <<Z_bad, <<"x">> >> }

OutputGroups ==
    { [kind |-> "OUTPUT", name |-> n, File |-> f, MaxSize |-> sr[1], Rotations |-> sr[2]] :
        n \in OutputNames, f \in FileValues, sr \in SizeRotValues }

\* group names after the CONTEXT= prefix
ContextNames == {PMLOG_CONTEXT_GLOBAL, N_ctx, <<>>}
\* the values of the keys Rule1, Rule2, ... of a group
RuleLists ==
    { <<>>, <<V_any_std>>, <<V_any_std, V_kern_neg>>, <<V_user_notinfo_klog>>,
      <<V_unknown_out>>, <<V_any_std, V_no_comma>> }
\* the BufferSize and FlushLevel keys
BufferValues == { <<NoKey, NoKey>>, <<Z_16K, L_warning>>, <<Z_bad, NoKey>>, <<NoKey, L_loud>> }

ContextGroups ==
    { [kind |-> "CONTEXT", name |-> n, rules |-> r, BufferSize |-> b[1], FlushLevel |-> b[2]] :
        n \in ContextNames, r \in { l \in RuleLists : Len(l) <= MaxRuleKeys }, b \in BufferValues }

\* a group that is neither an OUTPUT nor a CONTEXT
UnknownGroups == { [kind |-> "OTHER", name |-> <<"x">>] }

\* g_key_file_get_groups lists a group name once
GroupId(g) == <<g.kind, g.name>>

\* what a step does when it runs into undefined behaviour (a GError freed
\* twice, a glib call on a NULL tree): it goes on, or the process dies
UBOutcomes == {"returns", "aborts"}

(***************************************************************************)
(* The sections the configuration format calls failing.                    *)
(***************************************************************************)
OutputSectionFails(g) ==
    \/ g.File = NoKey
    \/ g.File = <<>>
    \/ g.File[1] # "/"
    \/ /\ FindOutputByName(g_outputConfs, g_numOutputs,
                           ParseOutputInit(g.name, g_numOutputs).po.name) = -1
       /\ g_numOutputs >= PMLOG_MAX_NUM_OUTPUTS

ContextSectionFails(g) ==
    \/ \E j \in 1..Len(g.rules) : ~ParseRule(g.rules[j], g_outputConfs, g_numOutputs).ok
    \/ g.BufferSize # NoKey /\ ~ParseSize(g.BufferSize, 0).ok
    \/ g.FlushLevel # NoKey /\ ~ParseLevel(g.FlushLevel).ok

(***************************************************************************)
(* The message path. The classifier and the ring buffer are defined        *)
(* outside the sources at hand (config.c only calls RBNew); they are       *)
(* written after the daemon's documentation.                               *)
(***************************************************************************)
Range(f) == { f[i] : i \in DOMAIN f }

\* nothing written to any output; no message; classify before the first rule
NothingWritten == [i \in 0..(PMLOG_MAX_NUM_OUTPUTS - 1) |-> <<>>]
NoMsg == [context |-> <<>>, facility |-> 0, level |-> 0, program |-> <<>>, size |-> 0]
ClassifyStart == [targets |-> <<>>, suppressed |-> {}]

\* the three tests of a rule against a message
RuleMatches(rule, msg) ==
    /\ rule.facility = -1 \/ rule.facility = msg.facility
    /\ \/ rule.level = -1
       \/ ~rule.levelInvert /\ rule.level = msg.level
       \/ rule.levelInvert /\ rule.level # msg.level
    /\ rule.program = <<>> \/ rule.program = msg.program

\* one rule of a classifier in which a matching omit rule takes its output
\* out of the targets again
ClassifyRule_OmitRemoves(st, rule, msg) ==
    IF ~RuleMatches(rule, msg) THEN st
    ELSE IF rule.omitOutput
         THEN [targets |-> SelectSeq(st.targets, LAMBDA o : o # rule.outputIndex),
               suppressed |-> st.suppressed \cup {rule.outputIndex}]
         ELSE IF rule.outputIndex \in Range(st.targets)
              THEN st
              ELSE [st EXCEPT !.targets = Append(@, rule.outputIndex)]

\* one rule of classify: a matching omit rule records its output as
\* suppressed, a matching positive rule adds its output to the targets unless
\* it is suppressed or already there
ClassifyRule(st, rule, msg) ==
    IF ~RuleMatches(rule, msg) THEN st
    ELSE IF rule.omitOutput
         THEN [st EXCEPT !.suppressed = @ \cup {rule.outputIndex}]
         ELSE IF rule.outputIndex \in st.suppressed \/ rule.outputIndex \in Range(st.targets)
              THEN st
              ELSE [st EXCEPT !.targets = Append(@, rule.outputIndex)]

\* the rules 1 .. n of the list, evaluated in declared order
RECURSIVE ClassifyPrefix(_, _, _)
ClassifyPrefix(rules, n, msg) ==
    IF n = 0 THEN ClassifyStart
    ELSE ClassifyRule(ClassifyPrefix(rules, n - 1, msg), rules[n], msg)

\* the context a name stands for: <global> when the name is unknown
ResolveContext(tree, name) ==
    IF g_tree_has(tree, name) THEN name ELSE PMLOG_CONTEXT_GLOBAL

\* classify: the ordered, deduplicated output indices of a message
classify(tree, msg) ==
    LET conf == tree.nodes[ResolveContext(tree, msg.context)]
    IN  ClassifyPrefix(conf.rules, conf.numRules, msg).targets

\* a context has a ring buffer when a buffer size was configured for it
HasRingBuffer(conf) == conf.rb.live /\ conf.rb.bufferSize > 0

RECURSIVE SumSizes(_)
SumSizes(entries) ==
    IF entries = <<>> THEN 0 ELSE Head(entries).size + SumSizes(Tail(entries))

\* admission: the oldest entries are dropped until the new one fits; an entry
\* that alone exceeds the budget is dropped and the buffer left as it was
RECURSIVE EvictUntilFits(_, _, _)
EvictUntilFits(entries, size, budget) ==
    IF SumSizes(entries) + size <= budget THEN entries
    ELSE EvictUntilFits(Tail(entries), size, budget)

\* an admission that makes room for any entry: one larger than the budget
\* empties the buffer and is kept
RBAdd_AdmitsOversize(rb, entry) ==
    IF entry.size > rb.bufferSize THEN [rb EXCEPT !.entries = <<entry>>]
    ELSE [rb EXCEPT !.entries = Append(EvictUntilFits(@, entry.size, rb.bufferSize), entry)]

RBAdd(rb, entry) ==
    IF entry.size > rb.bufferSize THEN rb
    ELSE [rb EXCEPT !.entries = Append(EvictUntilFits(@, entry.size, rb.bufferSize), entry)]

\* the lines of the entries, in the order given, appended to each output that
\* classify yields for the entry
RECURSIVE WriteAll(_, _, _)
WriteAll(wr, entries, tree) ==
    IF entries = <<>> THEN wr
    ELSE LET e == Head(entries)
             tg == Range(classify(tree, e.msg))
             wr1 == [o \in DOMAIN wr |-> IF o \in tg THEN Append(wr[o], e.id) ELSE wr[o]]
         IN  WriteAll(wr1, Tail(entries), tree)

\* The Output Writer, defined outside the sources at hand. Its maximum size
\* and rotations are those of the output's entry in g_outputConfs.
\* no file written yet
NoFiles == [i \in 0..(PMLOG_MAX_NUM_OUTPUTS - 1) |-> [size |-> 0, archives |-> <<>>]]

\* rotation of a live file of that size: P becomes P.1, the archives move up
\* by one and those beyond P.N go; P is reopened empty
Rotate(w, size, rotations) ==
    [size |-> 0,
     archives |-> <<size>> \o SubSeq(w.archives, 1, Min(Len(w.archives), rotations - 1))]

\* write: the line is appended and the running size incremented; at or above
\* the maximum size the file is rotated, unless a rename or unlink fails
\* (ioerr): then the writer stays on the current file
WriteLine(w, conf, len, ioerr) ==
    IF w.size + len >= conf.maxSize /\ ~ioerr
    THEN Rotate(w, w.size + len, conf.rotations)
    ELSE [w EXCEPT !.size = w.size + len]

\* the writers after the lines of the entries, in the order given, were
\* written to each output that classify yields for the entry
RECURSIVE WriteSizes(_, _, _, _, _)
WriteSizes(ws, entries, tree, outs, ioerr) ==
    IF entries = <<>> THEN ws
    ELSE WriteSizes([o \in DOMAIN ws |->
                        IF o \in Range(classify(tree, Head(entries).msg))
                        THEN WriteLine(ws[o], outs[o], Head(entries).size, ioerr)
                        ELSE ws[o]],
                    Tail(entries), tree, outs, ioerr)

\* a flush that drains the newest entry first
DrainOrder_NewestFirst(entries) == [i \in 1..Len(entries) |-> entries[Len(entries) - i + 1]]

\* the entries of a ring buffer in the order a flush drains them: oldest first
DrainOrder(entries) == entries

(***************************************************************************)
(* The daemon's startup: the tree is allocated (by code outside the        *)
(* sources at hand; config.c itself leaves g_contextConfs NULL, so both    *)
(* cases are kept), ReadConfFile reads the file group by group, and        *)
(* SetDefaultConf is called when it returned false.                        *)
(***************************************************************************)
Init ==
    /\ pc = "start"
    /\ g_numOutputs = 0
    /\ g_outputConfs = ZeroOutputs
    /\ g_numContexts = 0
    /\ g_contextConfs = NullTree
    /\ retVal = TRUE
    /\ gerror = NoError
    /\ parseOutput = [name |-> <<>>, File |-> <<>>, MaxSize |-> 0, Rotations |-> 0]
    /\ parseContext = [name |-> <<>>, numRules |-> 0, bufferSize |-> 0, flushLevel |-> 0,
                       rules |-> <<>>]
    /\ groupsRead = {}
    /\ firstOutputOther = FALSE
    /\ firstContextOther = FALSE
    /\ sectionFailed = FALSE
    /\ written = NothingWritten
    /\ writers = NoFiles
    /\ arrivals = <<>>
    /\ clsRules = <<>>
    /\ clsMsg = NoMsg
    /\ clsIdx = 0
    /\ clsState = ClassifyStart

\* the process dies: nothing of it is left to change
Crash == pc' = "crashed" /\ UNCHANGED <<g_numOutputs, g_outputConfs, g_numContexts,
             g_contextConfs, retVal, gerror, parseOutput, parseContext, groupsRead,
             firstOutputOther, firstContextOther, sectionFailed>>

Startup_NewTree ==
    /\ UNCHANGED <<msgVars, clsVars>>
    /\ pc = "start"
    /\ ~g_contextConfs.live
    /\ g_contextConfs' = EmptyTree
    /\ UNCHANGED <<pc, g_numOutputs, g_outputConfs, g_numContexts, retVal, gerror,
                   parseOutput, parseContext, groupsRead, firstOutputOther,
                   firstContextOther, sectionFailed>>

\* ReadConfFile up to the group loop: g_key_file_load_from_file loads the
\* file, or fails and the function returns false
ReadConfFile_Load(loaded) ==
    /\ UNCHANGED <<msgVars, clsVars>>
    /\ pc = "start"
    /\ retVal' = loaded
    /\ gerror' = NoError
    /\ pc' = IF loaded THEN "reading" ELSE "returned"
    /\ UNCHANGED <<g_numOutputs, g_outputConfs, g_numContexts, g_contextConfs,
                   parseOutput, parseContext, groupsRead, firstOutputOther,
                   firstContextOther, sectionFailed>>

CanReadGroup(g) ==
    /\ pc = "reading"
    /\ Cardinality(groupsRead) < MaxGroups
    /\ GroupId(g) \notin groupsRead

strncpy(n, src) == SubSeq(src, 1, Min(Len(src), n))

\* one iteration of the group loop, for an OUTPUT group; when MakeOutputConf
\* fails the loop is left and the function returns
\* the parse struct after the File key
OutputFileKey(po, g) ==
    IF g.File # NoKey THEN [po EXCEPT !.File = strncpy(PATH_MAX - 1, g.File)] ELSE po

\* the parse struct after the MaxSize key, sz being what ParseSize made of it
OutputMaxSizeKey(po, g, sz) ==
    IF g.MaxSize # NoKey /\ sz.ok THEN [po EXCEPT !.MaxSize = sz.n] ELSE po

\* the parse struct after the Rotations key, rt being what
\* g_key_file_get_integer made of it
OutputRotationsKey(po, rt) == IF rt.ok THEN [po EXCEPT !.Rotations = rt.n] ELSE po

ReadConfFile_Output(g, ub) ==
    /\ CanReadGroup(g)
    /\ \E sz \in {ParseSize(g.MaxSize, ParseOutputInit(g.name, g_numOutputs).po.MaxSize)},
       rt \in {KeyFileInteger(g.Rotations)} :
      \E mk \in {MakeOutputConf(
                     OutputRotationsKey(
                       OutputMaxSizeKey(
                         OutputFileKey(ParseOutputInit(g.name, g_numOutputs).po, g), g, sz),
                       rt),
                     g_outputConfs, g_numOutputs)} :
        LET \* the error of the Rotations key is freed and the pointer kept
            gerr == IF rt.ok THEN NoError ELSE Dangling
            \* at end: the error freed at the Rotations key is freed again
            freedTwice == ~mk.ok /\ ~rt.ok
        IN  /\ UNCHANGED <<msgVars, clsVars>>
            /\ ub = "aborts" => freedTwice
            /\ IF ub = "aborts" THEN Crash
               ELSE /\ g_outputConfs' = mk.outs
                    /\ g_numOutputs' = mk.numOutputs
                    /\ parseOutput' = mk.po
                    /\ retVal' = (retVal /\ mk.ok)
                    /\ gerror' = IF mk.ok THEN gerr ELSE NoError
                    /\ pc' = IF mk.ok THEN "reading" ELSE "returned"
                    /\ groupsRead' = groupsRead \cup {GroupId(g)}
                    /\ firstOutputOther' =
                           (firstOutputOther \/ (g_numOutputs = 0 /\ g.name # PMLOG_OUTPUT_STDLOG))
                    /\ sectionFailed' = (sectionFailed \/ OutputSectionFails(g))
                    /\ UNCHANGED <<g_numContexts, g_contextConfs, parseContext,
                                   firstContextOther>>

\* the parse struct after the BufferSize and FlushLevel keys: bufRead tells
\* whether the BufferSize value was looked at, bs and fl are what ParseSize
\* and ParseLevel made of the values
ContextKeys(pcx, g, bufRead, bs, fl) ==
    [pcx EXCEPT !.bufferSize = IF bufRead /\ bs.ok THEN bs.n ELSE @,
                !.flushLevel = IF g.FlushLevel # NoKey THEN fl.level ELSE @]

\* one iteration of the group loop, for a CONTEXT group
ReadConfFile_Context(g, ub) ==
    /\ CanReadGroup(g)
    /\ \E rr \in {ReadRules([ok |-> TRUE, pcx |-> ParseContextInit(g.name, g_numContexts).pcx],
                         g.rules, 1, g_outputConfs, g_numOutputs)},
       \* the BufferSize key is read with the function-level gerror: when it
       \* is not NULL the value is not looked at and the error is freed (again)
       freedTwice \in {gerror = Dangling},
       fl \in {ParseLevel(g.FlushLevel)} :
      \E bs \in {ParseSize(g.BufferSize, rr.pcx.bufferSize)},
         bufRead \in {~freedTwice /\ g.BufferSize # NoKey} :
        \E pcx2 \in {ContextKeys(rr.pcx, g, bufRead, bs, fl)} :
          \E tree1 \in {MakeContextConf(pcx2, g_contextConfs)} :
            /\ UNCHANGED <<msgVars, clsVars>>
            /\ ub = "aborts" => (freedTwice \/ ~g_contextConfs.live)
            /\ IF ub = "aborts" THEN Crash
               ELSE /\ g_contextConfs' = tree1
                    /\ g_numContexts' = IF ~g_tree_has(g_contextConfs, pcx2.name)
                                        THEN g_tree_nnodes(tree1) ELSE g_numContexts
                    /\ parseContext' = pcx2
                    /\ retVal' = /\ retVal
                                 /\ rr.ok
                                 /\ ~(bufRead /\ ~bs.ok)
                                 /\ ~(g.FlushLevel # NoKey /\ ~fl.ok)
                    /\ gerror' = NoError
                    /\ pc' = "reading"
                    /\ groupsRead' = groupsRead \cup {GroupId(g)}
                    /\ firstContextOther' =
                           (firstContextOther
                              \/ (g_numContexts = 0 /\ g.name # PMLOG_CONTEXT_GLOBAL))
                    /\ sectionFailed' = (sectionFailed \/ ContextSectionFails(g))
                    /\ UNCHANGED <<g_numOutputs, g_outputConfs, parseOutput,
                                   firstOutputOther>>

\* one iteration of the group loop, for a group of another kind: a message only
ReadConfFile_Unknown(g) ==
    /\ UNCHANGED <<msgVars, clsVars>>
    /\ CanReadGroup(g)
    /\ groupsRead' = groupsRead \cup {GroupId(g)}
    /\ UNCHANGED <<pc, g_numOutputs, g_outputConfs, g_numContexts, g_contextConfs, retVal,
                   gerror, parseOutput, parseContext, firstOutputOther, firstContextOther,
                   sectionFailed>>

\* the group loop ends with the last group of the file; the function frees
\* gerror when it is not NULL and returns retVal
ReadConfFile_End(ub) ==
    /\ UNCHANGED <<msgVars, clsVars>>
    /\ pc = "reading"
    /\ ub = "aborts" => gerror = Dangling
    /\ IF ub = "aborts" THEN Crash
       ELSE /\ pc' = "returned"
            /\ gerror' = NoError
            /\ UNCHANGED <<g_numOutputs, g_outputConfs, g_numContexts, g_contextConfs, retVal,
                           parseOutput, parseContext, groupsRead, firstOutputOther,
                           firstContextOther, sectionFailed>>

\* ClearConf: both tables empty, the tree pointer NULL
ClearConf == [numOutputs |-> 0, outs |-> ZeroOutputs, numContexts |-> 0, tree |-> NullTree]

\* SetDefaultConf, called when ReadConfFile returned false
SetDefaultConf(ub) ==
    LET c == ClearConf
        outs == [c.outs EXCEPT ![0] = [outputName |-> PMLOG_OUTPUT_STDLOG,
                                       path |-> DEFAULT_LOG_FILE_PATH,
                                       maxSize |-> PMLOG_DEFAULT_LOG_SIZE,
                                       rotations |-> PMLOG_DEFAULT_LOG_ROTATIONS]]
        rule == [facility |-> -1, level |-> -1, levelInvert |-> FALSE, program |-> <<>>,
                 outputIndex |-> 0, omitOutput |-> FALSE]
        created == ~g_tree_has(c.tree, PMLOG_CONTEXT_GLOBAL)
        tree1 == IF created THEN CreateContext(c.tree, PMLOG_CONTEXT_GLOBAL) ELSE c.tree
        \* the context looked up or created gets the rule; it is in the tree
        \* only when the insertion put it there
        tree2 == IF g_tree_has(tree1, PMLOG_CONTEXT_GLOBAL)
                 THEN [tree1 EXCEPT !.nodes[PMLOG_CONTEXT_GLOBAL] =
                           [@ EXCEPT !.rules = <<rule>> \o Tail(@), !.numRules = 1]]
                 ELSE tree1
    IN  /\ UNCHANGED <<msgVars, clsVars>>
        /\ pc = "returned"
        /\ ~retVal
        /\ ub = "aborts" => ~c.tree.live
        /\ IF ub = "aborts" THEN Crash
           ELSE /\ g_outputConfs' = outs
                /\ g_numOutputs' = 1
                /\ g_contextConfs' = tree2
                /\ g_numContexts' = IF created THEN g_tree_nnodes(tree1) ELSE c.numContexts
                /\ pc' = "configured"
                /\ UNCHANGED <<retVal, gerror, parseOutput, parseContext, groupsRead,
                               firstOutputOther, firstContextOther, sectionFailed>>

\* ReadConfFile returned true: the tables stand as it left them
Startup_Accept ==
    /\ UNCHANGED <<msgVars, clsVars>>
    /\ pc = "returned"
    /\ retVal
    /\ pc' = "configured"
    /\ UNCHANGED <<g_numOutputs, g_outputConfs, g_numContexts, g_contextConfs, retVal, gerror,
                   parseOutput, parseContext, groupsRead, firstOutputOther,
                   firstContextOther, sectionFailed>>

Next ==
    \/ Startup_NewTree
    \/ \E loaded \in BOOLEAN : ReadConfFile_Load(loaded)
    \/ \E g \in OutputGroups, ub \in UBOutcomes : ReadConfFile_Output(g, ub)
    \/ \E g \in ContextGroups, ub \in UBOutcomes : ReadConfFile_Context(g, ub)
    \/ \E g \in UnknownGroups : ReadConfFile_Unknown(g)
    \/ \E ub \in UBOutcomes : ReadConfFile_End(ub)
    \/ \E ub \in UBOutcomes : SetDefaultConf(ub)
    \/ Startup_Accept

vars == <<confVars, msgVars, clsVars>>

Spec == Init /\ [][Next]_vars

(***************************************************************************)
(* Properties of the configuration loader.                                 *)
(***************************************************************************)
\* the entries of the output table
Outputs == { g_outputConfs[i] : i \in 0..(g_numOutputs - 1) }

\* the contexts stored in the context table
Contexts == { g_contextConfs.nodes[n] : n \in DOMAIN g_contextConfs.nodes }

\* ReadConfFile has processed groups, or has returned
InOrAfterReadConfFile == pc \in {"reading", "returned"}

\* C1: after ReadConfFile has processed any sequence of OUTPUT groups, every
\* entry of the output table has a maximum size in [4 KiB, 64 MiB] and a
\* rotation count in [1, 9].
C1_OutputLimits ==
    InOrAfterReadConfFile =>
        \A o \in Outputs :
            /\ PMLOG_MIN_LOG_SIZE <= o.maxSize /\ o.maxSize <= PMLOG_MAX_LOG_SIZE
            /\ PMLOG_MIN_NUM_ROTATIONS <= o.rotations /\ o.rotations <= PMLOG_MAX_NUM_ROTATIONS

\* C2: if the first OUTPUT group met with an empty output table is not named
\* stdlog, ReadConfFile returns false and no output of another name is at
\* index 0 of the output table.
C2_FirstOutputMustBeStdlog ==
    (pc = "returned" /\ firstOutputOther) =>
        /\ ~retVal
        /\ g_numOutputs > 0 => g_outputConfs[0].outputName = PMLOG_OUTPUT_STDLOG

\* C3: if the first CONTEXT group met with an empty context table is not named
\* <global>, ReadConfFile returns false and no context of another name is
\* created as the first context.
C3_FirstContextMustBeGlobal ==
    (pc = "returned" /\ firstContextOther) =>
        /\ ~retVal
        /\ Contexts # {} => g_tree_has(g_contextConfs, PMLOG_CONTEXT_GLOBAL)

\* C4: whenever ReadConfFile returns true, the entry at index 0 of the output
\* table is named stdlog and the context table has a context named <global>.
C4_LoadedHasStdlogAndGlobal ==
    (pc = "returned" /\ retVal) =>
        /\ g_numOutputs >= 1
        /\ g_outputConfs[0].outputName = PMLOG_OUTPUT_STDLOG
        /\ g_tree_has(g_contextConfs, PMLOG_CONTEXT_GLOBAL)

\* C5: after ReadConfFile has run and SetDefaultConf was called exactly when
\* it returned false, the output table and the context table are not empty.
C5_TablesNeverEmpty ==
    pc = "configured" => (g_numOutputs >= 1 /\ Contexts # {})

\* C6: every rule stored in every context of the context table (indices
\* 0 .. numRules - 1) has an outputIndex i with 0 <= i < g_numOutputs.
C6_RuleOutputIndexLive ==
    \A c \in Contexts :
        \A i \in 1..c.numRules :
            0 <= c.rules[i].outputIndex /\ c.rules[i].outputIndex < g_numOutputs

\* a context with two stored rules, one of them for the second output, after
\* ReadConfFile has returned
C6_Witness ==
    /\ pc = "returned"
    /\ \E c \in Contexts : c.numRules = 2
    /\ \E c \in Contexts : \E i \in 1..c.numRules : c.rules[i].outputIndex = 1

\* C7: if any section of the file fails, ReadConfFile returns false, whatever
\* groups come before or after the failing one.
C7_FailedSectionFailsLoad ==
    (pc = "returned" /\ sectionFailed) => ~retVal

\* the rule *.*,stdlog
DefaultRule ==
    [facility |-> -1, level |-> -1, levelInvert |-> FALSE, program |-> <<>>,
     outputIndex |-> 0, omitOutput |-> FALSE]

\* C8: SetDefaultConf leaves exactly one output, stdlog, with the default
\* path, size and rotations, and exactly one context, <global>, in the
\* context table with exactly the rule *.*,stdlog.
C8_DefaultConf ==
    (pc = "configured" /\ ~retVal) =>
        /\ g_numOutputs = 1
        /\ g_outputConfs[0] = [outputName |-> PMLOG_OUTPUT_STDLOG,
                               path |-> DEFAULT_LOG_FILE_PATH,
                               maxSize |-> PMLOG_DEFAULT_LOG_SIZE,
                               rotations |-> PMLOG_DEFAULT_LOG_ROTATIONS]
        /\ \A i \in 1..(PMLOG_MAX_NUM_OUTPUTS - 1) : g_outputConfs[i] = ZeroOutput
        /\ DOMAIN g_contextConfs.nodes = {PMLOG_CONTEXT_GLOBAL}
        /\ \A c \in Contexts : c.numRules = 1 /\ c.rules[1] = DefaultRule

(***************************************************************************)
(* The message path on loaded tables. The tables are the ones the loader   *)
(* builds from a file with the outputs stdlog and klog and the contexts    *)
(* <global> and ctx.                                                       *)
(***************************************************************************)
\* number of messages submitted
MaxMsgs == 4

V_any_klog == <<"*", ".", "*", ",", "k", "l", "o", "g">>
V_err_klog == <<"*", ".", "e", "r", "r", ",", "k", "l", "o", "g">>
L_err == <<"e", "r", "r">>
Z_2 == <<"2">>
Z_3 == <<"3">>

\* the CONTEXT groups of the files: rules, BufferSize, FlushLevel
RouteFiles ==
    { [global |-> [rules |-> <<V_any_std>>, BufferSize |-> Z_3, FlushLevel |-> L_warning],
       ctx |-> [rules |-> <<V_any_std, V_err_klog>>, BufferSize |-> Z_2, FlushLevel |-> L_err]],
      [global |-> [rules |-> <<V_any_std, V_kern_neg>>, BufferSize |-> NoKey, FlushLevel |-> NoKey],
       ctx |-> [rules |-> <<V_any_klog, V_any_std>>, BufferSize |-> Z_3, FlushLevel |-> L_warning]] }

\* the output table after the groups [OUTPUT=stdlog] and [OUTPUT=klog], each
\* with File=/t.log and no other key
RouteOutputs ==
    LET o1 == MakeOutputConf([ParseOutputInit(PMLOG_OUTPUT_STDLOG, 0).po EXCEPT !.File = F_abs],
                             ZeroOutputs, 0)
    IN  MakeOutputConf([ParseOutputInit(N_klog, 1).po EXCEPT !.File = F_abs], o1.outs, 1)

\* the parsed context of a CONTEXT group
RouteParseContext(name, numContexts, grp) ==
    ContextKeys(ReadRules([ok |-> TRUE, pcx |-> ParseContextInit(name, numContexts).pcx],
                          grp.rules, 1, RouteOutputs.outs, RouteOutputs.numOutputs).pcx,
                grp, grp.BufferSize # NoKey, ParseSize(grp.BufferSize, 0),
                ParseLevel(grp.FlushLevel))

\* the context table after the groups [CONTEXT=<global>] and [CONTEXT=ctx]
RouteTree(f) ==
    MakeContextConf(RouteParseContext(N_ctx, 1, f.ctx),
                    MakeContextConf(RouteParseContext(PMLOG_CONTEXT_GLOBAL, 0, f.global),
                                    EmptyTree))

\* the messages submitted: context name (the last one is not in the table),
\* facility kern or user, level err or info, size of the formatted line
N_other == <<"o">>
Messages ==
    { [context |-> c, facility |-> fa, level |-> l, program |-> <<"p">>, size |-> z] :
        c \in {PMLOG_CONTEXT_GLOBAL, N_ctx, N_other}, fa \in {0}, l \in {3, 6}, z \in {1, 3} }

InitSubmit ==
    /\ pc = "configured"
    /\ g_numOutputs = RouteOutputs.numOutputs
    /\ g_outputConfs = RouteOutputs.outs
    /\ \E f \in RouteFiles : g_contextConfs = RouteTree(f)
    /\ g_numContexts = 2
    /\ retVal = TRUE
    /\ gerror = NoError
    /\ parseOutput = RouteOutputs.po
    /\ parseContext = [name |-> <<>>, numRules |-> 0, bufferSize |-> 0, flushLevel |-> 0,
                       rules |-> <<>>]
    /\ groupsRead = {}
    /\ firstOutputOther = FALSE
    /\ firstContextOther = FALSE
    /\ sectionFailed = FALSE
    /\ written = NothingWritten
    /\ writers = NoFiles
    /\ arrivals = <<>>
    /\ clsRules = <<>>
    /\ clsMsg = NoMsg
    /\ clsIdx = 0
    /\ clsState = ClassifyStart

\* submit: a message below the flush level of a context with a ring buffer is
\* put into the buffer; any other message first drains the buffer of its
\* context, oldest entry first, and is then written to its targets; ioerr
\* tells whether the rotations of these writes hit a rename or unlink error
submit(msg, ioerr) ==
    LET name == ResolveContext(g_contextConfs, msg.context)
        conf == g_contextConfs.nodes[name]
        entry == [id |-> Len(arrivals) + 1, msg |-> msg, size |-> msg.size]
        buffered == HasRingBuffer(conf) /\ msg.level > conf.rb.flushLevel
        drained == IF HasRingBuffer(conf) THEN DrainOrder(conf.rb.entries) ELSE <<>>
    IN  /\ pc = "configured"
        /\ Len(arrivals) < MaxMsgs
        /\ arrivals' = Append(arrivals, msg)
        /\ IF buffered
           THEN /\ g_contextConfs' = [g_contextConfs EXCEPT !.nodes[name].rb = RBAdd(@, entry)]
                /\ written' = written
                /\ writers' = writers
           ELSE /\ g_contextConfs' = [g_contextConfs EXCEPT !.nodes[name].rb.entries = <<>>]
                /\ written' = WriteAll(written, drained \o <<entry>>, g_contextConfs)
                /\ writers' = WriteSizes(writers, drained \o <<entry>>, g_contextConfs,
                                         g_outputConfs, ioerr)
        /\ UNCHANGED <<pc, g_numOutputs, g_outputConfs, g_numContexts, retVal, gerror,
                       parseOutput, parseContext, groupsRead, firstOutputOther,
                       firstContextOther, sectionFailed, clsVars>>

NextSubmit == \E msg \in Messages, ioerr \in BOOLEAN : submit(msg, ioerr)

SpecSubmit == InitSubmit /\ [][NextSubmit]_vars

(***************************************************************************)
(* Properties of the message path.                                         *)
(***************************************************************************)
\* the context whose rules and buffer the message with that id uses
MsgContext(id) == ResolveContext(g_contextConfs, arrivals[id].context)

\* the outputs classify yields for the message with that id
MsgTargets(id) == Range(classify(g_contextConfs, arrivals[id]))

\* the ids n .. Len(arrivals) of the messages that target output o, ascending
RECURSIVE TargetingFrom(_, _)
TargetingFrom(o, n) ==
    IF n > Len(arrivals) THEN <<>>
    ELSE IF o \in MsgTargets(n) THEN <<n>> \o TargetingFrom(o, n + 1)
         ELSE TargetingFrom(o, n + 1)

OutputIndices == 0..(g_numOutputs - 1)

NothingBuffered == \A c \in Contexts : c.rb.entries = <<>>

AllOnRingBufferContexts ==
    \A id \in 1..Len(arrivals) : HasRingBuffer(g_contextConfs.nodes[MsgContext(id)])

C9_ArrivalOrderAcrossContexts ==
    (pc = "configured" /\ AllOnRingBufferContexts) =>
        \A o \in OutputIndices :
            \A i, j \in 1..Len(written[o]) : i < j => written[o][i] < written[o][j]

MaxClsRules == 4

Rule(fa, l, inv, prog, o, om) ==
    [facility |-> fa, level |-> l, levelInvert |-> inv, program |-> prog,
     outputIndex |-> o, omitOutput |-> om]

\* *.* for either output, positive and negative; user.*; *.!err; kern.err;
\* *.*.q
ClsRuleSet ==
    { Rule(-1, -1, FALSE, <<>>, o, om) : o \in {0, 1}, om \in BOOLEAN }
    \cup { Rule(1, -1, FALSE, <<>>, 0, FALSE), Rule(-1, 3, TRUE, <<>>, 1, TRUE),
           Rule(0, 3, FALSE, <<>>, 0, TRUE), Rule(-1, -1, FALSE, <<"q">>, 1, FALSE) }

ClsRuleLists == UNION { [1..n -> ClsRuleSet] : n \in 0..MaxClsRules }

ClsMessages ==
    { [context |-> PMLOG_CONTEXT_GLOBAL, facility |-> fa, level |-> l, program |-> <<"p">>,
       size |-> 1] : fa \in {0, 1}, l \in {3, 6} }

InitClassify ==
    /\ pc = "configured"
    /\ g_numOutputs = RouteOutputs.numOutputs
    /\ g_outputConfs = RouteOutputs.outs
    /\ g_contextConfs = EmptyTree
    /\ g_numContexts = 0
    /\ retVal = TRUE
    /\ gerror = NoError
    /\ parseOutput = RouteOutputs.po
    /\ parseContext = [name |-> <<>>, numRules |-> 0, bufferSize |-> 0, flushLevel |-> 0,
                       rules |-> <<>>]
    /\ groupsRead = {}
    /\ firstOutputOther = FALSE
    /\ firstContextOther = FALSE
    /\ sectionFailed = FALSE
    /\ written = NothingWritten
    /\ writers = NoFiles
    /\ arrivals = <<>>
    /\ clsRules \in ClsRuleLists
    /\ clsMsg \in ClsMessages
    /\ clsIdx = 0
    /\ clsState = ClassifyStart

\* classify evaluates the next rule of the list
classify_NextRule ==
    /\ clsIdx < Len(clsRules)
    /\ clsState' = ClassifyRule(clsState, clsRules[clsIdx + 1], clsMsg)
    /\ clsIdx' = clsIdx + 1
    /\ UNCHANGED <<confVars, msgVars, clsRules, clsMsg>>

NextClassify == classify_NextRule

SpecClassify == InitClassify /\ [][NextClassify]_vars

MatchedFor(i, o, om) ==
    /\ i \in 1..clsIdx
    /\ RuleMatches(clsRules[i], clsMsg)
    /\ clsRules[i].outputIndex = o
    /\ clsRules[i].omitOutput = om

GlobalHasKernNegative ==
    /\ g_tree_has(g_contextConfs, PMLOG_CONTEXT_GLOBAL)
    /\ g_contextConfs.nodes[PMLOG_CONTEXT_GLOBAL].numRules = 2
    /\ g_contextConfs.nodes[PMLOG_CONTEXT_GLOBAL].rules[1] = Rule(-1, -1, FALSE, <<>>, 0, FALSE)
    /\ g_contextConfs.nodes[PMLOG_CONTEXT_GLOBAL].rules[2] = Rule(0, -1, FALSE, <<>>, 0, TRUE)

Submitted == arrivals'[Len(arrivals')]
SubmittedContext == ResolveContext(g_contextConfs, Submitted.context)
SubmittedIsBuffered ==
    /\ HasRingBuffer(g_contextConfs.nodes[SubmittedContext])
    /\ Submitted.level > g_contextConfs.nodes[SubmittedContext].rb.flushLevel

C13_SizeBelowMax ==
    pc = "configured" =>
        \A o \in OutputIndices :
            written[o] # <<>> => writers[o].size < g_outputConfs[o].maxSize

(***************************************************************************)
(* The tables around a failing section.                                    *)
(***************************************************************************)
\* the step processes the group g
ReadsOutputGroup(g) ==
    /\ GroupId(g) \in groupsRead' \ groupsRead
    /\ \E ub \in UBOutcomes : ReadConfFile_Output(g, ub)

ReadsContextGroup(g) ==
    /\ GroupId(g) \in groupsRead' \ groupsRead
    /\ \E ub \in UBOutcomes : ReadConfFile_Context(g, ub)

\* an OUTPUT group with a missing or relative File
FileMissingOrRelative(g) == g.File = NoKey \/ g.File = <<>> \/ g.File[1] # "/"

\* a CONTEXT group with a malformed rule or a rule that names an unknown output
SomeRuleRejected(g) ==
    \E j \in 1..Len(g.rules) : ~ParseRule(g.rules[j], g_outputConfs, g_numOutputs).ok

\* C14: a failing section is skipped. An OUTPUT group with a missing or
\* relative File, and a CONTEXT group with a malformed rule or a rule that
\* names an unknown output, add no entry to the output table or the context
\* table and change no existing entry.
C14_FailedSectionSkipped ==
    [][ /\ \A g \in OutputGroups :
             (FileMissingOrRelative(g) /\ ReadsOutputGroup(g))
                 => UNCHANGED <<g_numOutputs, g_outputConfs, g_numContexts, g_contextConfs>>
        /\ \A g \in ContextGroups :
             (SomeRuleRejected(g) /\ ReadsContextGroup(g))
                 => UNCHANGED <<g_numOutputs, g_outputConfs, g_numContexts, g_contextConfs>>
      ]_vars

(***************************************************************************)
(* The MaxSize key: the size its grammar denotes.                          *)
(***************************************************************************)
MaxDecimalDigits == 9

RECURSIVE DecimalValue(_, _)
DecimalValue(s, acc) ==
    IF s = <<>> THEN acc ELSE DecimalValue(Tail(s), acc * 10 + DigitVal(Head(s)))

\* a run of at most MaxDecimalDigits decimal digits
IsDecimal(s) ==
    /\ s # <<>>
    /\ Len(s) <= MaxDecimalDigits
    /\ \A i \in 1..Len(s) : IsDigitOf(s[i], 10)

\* the suffix of a MaxSize value and the multiplier it stands for
SizeSuffix(v) ==
    IF TrimSuffixCaseInsensitive(v, <<"K", "B">>).trimmed
    THEN [mult |-> 1024, digits |-> TrimSuffixCaseInsensitive(v, <<"K", "B">>).s]
    ELSE IF TrimSuffixCaseInsensitive(v, <<"M", "B">>).trimmed
    THEN [mult |-> 1024 * 1024, digits |-> TrimSuffixCaseInsensitive(v, <<"M", "B">>).s]
    ELSE IF TrimSuffixCaseInsensitive(v, <<"K">>).trimmed
    THEN [mult |-> 1024, digits |-> TrimSuffixCaseInsensitive(v, <<"K">>).s]
    ELSE IF TrimSuffixCaseInsensitive(v, <<"M">>).trimmed
    THEN [mult |-> 1024 * 1024, digits |-> TrimSuffixCaseInsensitive(v, <<"M">>).s]
    ELSE [mult |-> 1, digits |-> v]

\* n times the multiplier, replaced by the nearest value of
\* [PMLOG_MIN_LOG_SIZE, PMLOG_MAX_LOG_SIZE]
NearestLegalSize(n, mult) ==
    IF n > PMLOG_MAX_LOG_SIZE \div mult THEN PMLOG_MAX_LOG_SIZE
    ELSE IF n * mult < PMLOG_MIN_LOG_SIZE THEN PMLOG_MIN_LOG_SIZE
    ELSE n * mult

\* C15: when an OUTPUT group is taken whose MaxSize is a non-negative
\* integer n with an optional suffix (none, K or KB, M or MB, any case), the
\* size arrived at for the output is n times the multiplier, replaced by
\* 4 KiB when below it and by 64 MiB when above it, also when the product
\* does not fit a 32-bit signed integer.
C15_SizeIsNearestLegal ==
    [][ \A g \in OutputGroups :
          ( /\ IsDecimal(SizeSuffix(g.MaxSize).digits)
            /\ ReadsOutputGroup(g)
            /\ pc' = "reading" )
              => parseOutput'.MaxSize =
                     NearestLegalSize(DecimalValue(SizeSuffix(g.MaxSize).digits, 0),
                                      SizeSuffix(g.MaxSize).mult) ]_vars

(***************************************************************************)
(* ParseContextData, one rule value at a time.  The values are composed    *)
(* from the parts of the grammar                                           *)
(*     <facility>[.[!]<level>[.<program>]],[-]<outputName>                 *)
(* so that the rule a value denotes is known from its parts.               *)
(***************************************************************************)
\* an output name of the greatest length an output may have
N_long == [i \in 1..PMLOG_OUTPUT_MAX_NAME_LENGTH |-> "a"]
P_ls == <<"l", "s">>

\* the output tables the rules are read against: stdlog alone, stdlog with
\* klog, stdlog with the long name
RuleOutputTable(second) ==
    LET o1 == MakeOutputConf([ParseOutputInit(PMLOG_OUTPUT_STDLOG, 0).po EXCEPT !.File = F_abs],
                             ZeroOutputs, 0)
    IN  IF second = NULL THEN o1
        ELSE MakeOutputConf([ParseOutputInit(second, 1).po EXCEPT !.File = F_abs], o1.outs, 1)

RuleOutputTables == {RuleOutputTable(second) : second \in {NULL, N_klog, N_long}}

\* the context the rules are read into: fresh, or holding one rule already
RuleContexts ==
    { ParseContextInit(PMLOG_CONTEXT_GLOBAL, 0).pcx,
      ParseContextData(ParseContextInit(PMLOG_CONTEXT_GLOBAL, 0).pcx, V_any_std,
                       RuleOutputTable(NULL).outs, 1).pcx }

\* the optional tail of the filter: <<level, inverted, program>>, NULL for a
\* part that is absent
RuleFilterTails ==
    {<<NULL, FALSE, NULL>>} \cup
    { <<l, i, p>> : l \in {<<"*">>, L_warning}, i \in BOOLEAN, p \in {NULL, P_ls} }

\* how the value ends: as the grammar says, after the filter without a ",",
\* or with further "." or "," data after the output name
RuleEndings == {"", "nocomma", ".", ","}

RuleForms ==
    { [facility |-> fa, level |-> ft[1], inv |-> ft[2], program |-> ft[3],
       omit |-> om, output |-> o, ending |-> e] :
        fa \in {<<"*">>, <<"k", "e", "r", "n">>}, ft \in RuleFilterTails,
        om \in BOOLEAN, o \in {PMLOG_OUTPUT_STDLOG, N_klog, N_long}, e \in RuleEndings }

\* the text of a rule value with the parts f
ComposeFilter(f) ==
    f.facility
      \o (IF f.level = NULL THEN <<>>
          ELSE <<".">> \o (IF f.inv THEN <<"!">> ELSE <<>>) \o f.level
                 \o (IF f.program = NULL THEN <<>> ELSE <<".">> \o f.program))

ComposeRule(f) ==
    IF f.ending = "nocomma" THEN ComposeFilter(f)
    ELSE ComposeFilter(f) \o <<",">> \o (IF f.omit THEN <<"-">> ELSE <<>>) \o f.output
           \o (IF f.ending = "" THEN <<>> ELSE <<f.ending, "x">>)

\* the rule a value with the parts f denotes
DenotedRule(f, outs, numOutputs) ==
    [facility |-> ParseRuleFacility(f.facility).n,
     level |-> IF f.level = NULL THEN -1 ELSE ParseRuleLevel(f.level).n,
     levelInvert |-> f.level # NULL /\ f.inv,
     program |-> IF f.program = NULL THEN <<>> ELSE f.program,
     outputIndex |-> FindOutputByName(outs, numOutputs, f.output),
     omitOutput |-> f.omit]

InitRule ==
    /\ pc = "rules"
    /\ \E t \in RuleOutputTables :
         /\ g_numOutputs = t.numOutputs
         /\ g_outputConfs = t.outs
         /\ parseOutput = t.po
    /\ g_numContexts = 0
    /\ g_contextConfs = EmptyTree
    /\ retVal = TRUE
    /\ gerror = NoError
    /\ parseContext \in RuleContexts
    /\ groupsRead = {}
    /\ firstOutputOther = FALSE
    /\ firstContextOther = FALSE
    /\ sectionFailed = FALSE
    /\ written = NothingWritten
    /\ writers = NoFiles
    /\ arrivals = <<>>
    /\ clsRules = <<>>
    /\ clsMsg = NoMsg
    /\ clsIdx = 0
    /\ clsState = ClassifyStart

\* one call of ParseContextData, as the rule loop of ReadConfFile makes it
ParseContextData_Call(f) ==
    /\ pc = "rules"
    /\ \E r \in {ParseContextData(parseContext, ComposeRule(f), g_outputConfs, g_numOutputs)} :
         /\ parseContext' = r.pcx
         /\ retVal' = r.ok
    /\ pc' = "parsed"
    /\ UNCHANGED <<g_numOutputs, g_outputConfs, g_numContexts, g_contextConfs, gerror,
                   parseOutput, groupsRead, firstOutputOther, firstContextOther,
                   sectionFailed, msgVars, clsVars>>

NextRule == \E f \in RuleForms : ParseContextData_Call(f)

SpecRule == InitRule /\ [][NextRule]_vars

\* C16: ParseContextData maps a value <facility>[.[!]<level>[.<program>]],
\* [-]<outputName> that names a declared output to the rule the grammar
\* denotes (level any and level_invert false when the level is missing, the
\* empty program when the program is missing, level_invert set by "!", omit
\* set by a leading "-", the index of the named output), counting it; a
\* value with no "," after the filter, or with further "." or "," data after
\* the output name, is rejected and leaves the rule count as it was.
C16_RuleAsGrammarDenotes ==
    [][ \A f \in RuleForms :
          ParseContextData_Call(f) =>
            /\ (f.ending = "" /\ FindOutputByName(g_outputConfs, g_numOutputs, f.output) # -1)
                  => /\ retVal'
                     /\ parseContext'.numRules = parseContext.numRules + 1
                     /\ parseContext'.rules =
                            Append(parseContext.rules,
                                   DenotedRule(f, g_outputConfs, g_numOutputs))
            /\ f.ending # ""
                  => /\ ~retVal'
                     /\ parseContext'.numRules = parseContext.numRules ]_vars

====
